---- MODULE Spec2Model ----
(***************************************************************************)
(* Client-side asynchronous data-synchronisation layer of the news admin   *)
(* client: the search overlay (src/src/components/SearchModal.tsx) and the *)
(* news feed's poll sessions (src/src/app/page.tsx).                       *)
(*                                                                         *)
(* Texts are sequences of one-character strings.  A search result item is  *)
(* represented by its identifier, a natural number; 0 is the empty (falsy) *)
(* identifier.  Timers are kept in explicit sets so that clearTimeout and  *)
(* clearInterval are operations of the model.                              *)
(***************************************************************************)
EXTENDS Integers, Sequences, FiniteSets, Bags, TLC

VARIABLES
  \* ---- SearchModal component state (SearchModal.tsx:32-43)
  isOpen,              \* prop isOpen
  searchQuery,         \* useState('')
  suggestions,         \* useState<string[]>([])
  results,             \* useState<NewsItem[]>([])
  loading,             \* useState(false)
  loadingSuggestions,  \* useState(false)
  loadingMore,         \* useState(false)
  currentPage,         \* useState(1)
  hasMore,             \* useState(true)
  pagination,          \* useState(null)
  timeouts,            \* pending setTimeout callbacks; ref marks debounceTimerRef.current
  sugInFlight,         \* suggestion requests awaiting their response
  fetchInFlight,       \* search requests awaiting their response
  \* ---- observation of the overlay's I/O
  burst,               \* the current typing burst and the suggestion requests it issued
  last,                \* the event of the most recent step, if it is one observed: a
                       \* response applied, a scroll event (near: within the threshold)
                       \* or a close (near: a debounce timer was pending)
  resultsQuery,        \* where it is observed, the keywords of the request whose
                       \* response put the first items into the Result Set; <<>>
                       \* while the Result Set is empty
  \* ---- Home component state (page.tsx:32-56)
  mounted,               \* the news feed screen is mounted
  news,                  \* useState<NewsItem[]>([])
  initialLoading,        \* useState(true)
  submitting,            \* useState(false)
  pollingNewsId,         \* useState(null); 0 is null
  activePollingInterval, \* useState(null); 0 is null
  intervals,             \* live setInterval timers
  pollCount,             \* let pollCount of each poll session's closure
  lookups,               \* status lookups awaiting their response; latest marks those of
                         \* the session's most recent tick
  post,                  \* creation requests awaiting their response
  started,               \* number of poll sessions started
  \* ---- observation of the poll sessions
  age,                   \* time since each session's timer was started
  issued,                \* status lookups each session has issued
  done,                  \* a lookup of the session has returned a status other than "added"
  scripted,              \* every lookup so far was answered "added" before the next tick
  lastPoll,              \* the feed response applied by the most recent step, if any
  \* ---- Home component state of the paginated list (page.tsx:34-56)
  searching,             \* useState(false)
  newsLoadingMore,       \* loadingMore, useState(false)
  newsPage,              \* page, useState(1)
  newsTotal,             \* pagination.total, initially 0
  deleting,              \* useState(false)
  newsInFlight,          \* filter and continuation fetches awaiting their response
  deleteInFlight         \* deletions awaiting their response

searchVars == <<isOpen, searchQuery, suggestions, results, loading, loadingSuggestions,
                loadingMore, currentPage, hasMore, pagination, timeouts, sugInFlight,
                fetchInFlight, burst, last, resultsQuery>>

listVars == <<searching, newsLoadingMore, newsPage, newsTotal, deleting, newsInFlight,
              deleteInFlight>>

feedVars == <<mounted, news, initialLoading, submitting, pollingNewsId,
              activePollingInterval, intervals, pollCount, lookups, post, started,
              age, issued, done, scripted, lastPoll, listVars>>

vars == <<searchVars, feedVars>>

(***************************************************************************)
(* Bounds of the model                                                     *)
(***************************************************************************)
MaxSugInFlight == 1
MaxFetchInFlight == 1
MaxPage == 2
MaxSessions == 2
MaxLookups == 2
MaxPollCount == 13

(***************************************************************************)
(* Program constants                                                       *)
(***************************************************************************)
DebounceDelay == 100
pageSize == 30
ScrollThreshold == 100
maxPolls == 12
PollInterval == 5

\* an optional field of a response body: absent, or present with a value
Some(v) == [present |-> TRUE, value |-> v]
NoData == [present |-> FALSE, value |-> <<>>]
NullPagination == [page |-> 0, size |-> 0, total |-> 0, total_pages |-> 0]
NoPagination == [present |-> FALSE, value |-> NullPagination]

(***************************************************************************)
(* Inputs                                                                  *)
(***************************************************************************)
ElectionFraud == <<"e","l","e","c","t","i","o","n"," ","f","r","a","u","d">>
TextA == <<" ","a"," ">>
Blank == <<" ">>
Texts == {Blank, TextA, ElectionFraud}
SearchTexts == {Blank, ElectionFraud}

SuggestionLists == {<<>>, <<TextA, Blank>>}

RECURSIVE Range(_, _)
Range(a, b) == IF a > b THEN <<>> ELSE <<a>> \o Range(a + 1, b)

FullPage == Range(1, pageSize)
ShortPage == Range(pageSize + 1, pageSize + 5)
Pages == {<<>>, <<1, 2>>, FullPage, ShortPage}
SmallPages == {<<>>, <<1, 2>>}

PaginationOf(page) == [page |-> page, size |-> pageSize, total |-> 35, total_pages |-> 2]

\* the bodies the search endpoint may answer with, or a failure
SearchResponses(page, pages) ==
  {[ok |-> TRUE, data |-> Some(d), pagination |-> Some(PaginationOf(page))] : d \in pages}
  \cup {[ok |-> TRUE, data |-> NoData, pagination |-> NoPagination],
        [ok |-> FALSE, data |-> NoData, pagination |-> NoPagination]}

SuggestionResponses(lists) ==
  {[ok |-> TRUE, data |-> d] : d \in {Some(x) : x \in lists} \cup {NoData}}
  \cup {[ok |-> FALSE, data |-> NoData]}

AdvanceSteps == {60}
CoarseSteps == {DebounceDelay}
ScrollDistances == {0, ScrollThreshold, ScrollThreshold + 1}
AtBottom == {0}
Keys == {"Enter", "a"}

(***************************************************************************)
(* String helpers: String.prototype.trim and split(/\s+/)                  *)
(***************************************************************************)
IsSpace(c) == c = " "

RECURSIVE TrimStart(_)
TrimStart(s) == IF s # <<>> /\ IsSpace(Head(s)) THEN TrimStart(Tail(s)) ELSE s

RECURSIVE TrimEnd(_)
TrimEnd(s) ==
  IF s # <<>> /\ IsSpace(s[Len(s)]) THEN TrimEnd(SubSeq(s, 1, Len(s) - 1)) ELSE s

Trim(s) == TrimEnd(TrimStart(s))

RECURSIVE SplitWs(_, _)
SplitWs(s, cur) ==
  IF s = <<>> THEN <<cur>>
  ELSE IF IsSpace(Head(s)) THEN <<cur>> \o SplitWs(TrimStart(s), <<>>)
  ELSE SplitWs(Tail(s), Append(cur, Head(s)))

\* keywords.trim().split(/\s+/) with the empty pieces dropped
Tokenize_whole(keywords) == <<Trim(keywords)>>
Tokenize(keywords) ==
  SelectSeq(SplitWs(Trim(keywords), <<>>), LAMBDA k : k # <<>>)

(***************************************************************************)
(* Timers                                                                  *)
(***************************************************************************)
ClearTimeout_noop(ts) == ts
\* clearTimeout(debounceTimerRef.current)
ClearTimeout(ts) == {t \in ts : ~t.ref}

\* debounceTimerRef.current = setTimeout(() => fetchSuggestions(query), 100)
SetTimeout(ts, query) ==
  {[t EXCEPT !.ref = FALSE] : t \in ts}
  \cup {[remaining |-> DebounceDelay, query |-> query, ref |-> TRUE]}

NoBurst == [active |-> FALSE, many |-> FALSE, text |-> <<>>, reqs |-> <<>>]
NoReq == [keywords |-> <<>>, page |-> 0, size |-> 0, append |-> FALSE]
NoSug == [query |-> <<>>, late |-> FALSE]
NoEvent ==
  [op |-> "none", req |-> NoReq, ok |-> FALSE, data |-> <<>>, near |-> FALSE, sug |-> NoSug]

(***************************************************************************)
(* Initial state: the overlay is mounted closed                            *)
(***************************************************************************)
InitSearch ==
  /\ isOpen = FALSE
  /\ searchQuery = <<>>
  /\ suggestions = <<>>
  /\ results = <<>>
  /\ loading = FALSE
  /\ loadingSuggestions = FALSE
  /\ loadingMore = FALSE
  /\ currentPage = 1
  /\ hasMore = TRUE
  /\ pagination = NullPagination
  /\ timeouts = {}
  /\ sugInFlight = EmptyBag
  /\ fetchInFlight = EmptyBag
  /\ burst = NoBurst
  /\ last = NoEvent
  /\ resultsQuery = <<>>

(***************************************************************************)
(* fetchResults, up to the await of the network call                       *)
(***************************************************************************)
HasMoreAfter_shortPage(newResults) == Len(newResults) >= pageSize
\* if (newResults.length === 0) setHasMore(false) else setHasMore(true)
HasMoreAfter(newResults) == Len(newResults) # 0

MergeAppend_nofilter(prev, newResults) == prev \o newResults
\* setResults(prev => [...prev, ...uniqueNewResults])
MergeAppend(prev, newResults) ==
  LET existingIds == {prev[i] : i \in DOMAIN prev} \ {0}
      uniqueNewResults == SelectSeq(newResults, LAMBDA id : id # 0 /\ id \notin existingIds)
  IN  prev \o uniqueNewResults

SearchRequest(keywords, page, append) ==
  [keywords |-> Tokenize(keywords), page |-> page, size |-> pageSize, append |-> append]

fetchResults_keep(keywords, page, append) ==
  IF Trim(keywords) = <<>>
  THEN /\ results' = <<>>
       /\ resultsQuery' = <<>>
       /\ pagination' = NullPagination
       /\ hasMore' = TRUE
       /\ UNCHANGED <<loading, loadingMore, fetchInFlight>>
  ELSE /\ IF append
          THEN /\ loadingMore' = TRUE
               /\ UNCHANGED <<loading, results, resultsQuery, pagination, hasMore>>
          ELSE /\ loading' = TRUE
               /\ UNCHANGED <<loadingMore, results, resultsQuery, pagination, hasMore>>
       /\ fetchInFlight' = fetchInFlight (+) SetToBag({SearchRequest(keywords, page, append)})

fetchResults(keywords, page, append) ==
  IF Trim(keywords) = <<>>
  THEN /\ results' = <<>>
       /\ resultsQuery' = <<>>
       /\ pagination' = NullPagination
       /\ hasMore' = TRUE
       /\ UNCHANGED <<loading, loadingMore, fetchInFlight>>
  ELSE /\ IF append
          THEN /\ loadingMore' = TRUE
               /\ UNCHANGED <<loading, results, resultsQuery, pagination, hasMore>>
          ELSE /\ loading' = TRUE
               /\ results' = <<>>
               /\ resultsQuery' = <<>>
               /\ pagination' = NullPagination
               /\ hasMore' = TRUE
               /\ UNCHANGED loadingMore
       /\ fetchInFlight' = fetchInFlight (+) SetToBag({SearchRequest(keywords, page, append)})

\* the model keeps at most cap search requests in flight
CanFetch(cap) == BagCardinality(fetchInFlight) < cap

(***************************************************************************)
(* Operations of the overlay                                               *)
(***************************************************************************)
Open ==
  /\ ~isOpen
  /\ isOpen' = TRUE
  /\ last' = NoEvent
  /\ UNCHANGED <<searchQuery, suggestions, results, resultsQuery, loading, loadingSuggestions,
                 loadingMore, currentPage, hasMore, pagination, timeouts, sugInFlight,
                 fetchInFlight, burst>>
  /\ UNCHANGED feedVars

\* onClose, followed by the reset effect of lines 69-85
Close ==
  /\ isOpen
  /\ isOpen' = FALSE
  /\ searchQuery' = <<>>
  /\ suggestions' = <<>>
  /\ results' = <<>>
  /\ resultsQuery' = <<>>
  /\ loading' = FALSE
  /\ loadingSuggestions' = FALSE
  /\ loadingMore' = FALSE
  /\ currentPage' = 1
  /\ hasMore' = TRUE
  /\ pagination' = NullPagination
  /\ timeouts' = ClearTimeout(timeouts)
  /\ burst' = NoBurst
  /\ last' = [NoEvent EXCEPT !.op = "close", !.near = (timeouts # {})]
  /\ UNCHANGED <<sugInFlight, fetchInFlight>>
  /\ UNCHANGED feedVars

handleSearch(query) ==
  /\ isOpen
  /\ searchQuery' = query
  /\ IF Trim(query) = <<>>
     THEN /\ timeouts' = ClearTimeout(timeouts)
          /\ suggestions' = <<>>
          /\ results' = <<>>
          /\ resultsQuery' = <<>>
          /\ burst' = NoBurst
     ELSE /\ timeouts' = SetTimeout(ClearTimeout(timeouts), query)
          /\ burst' = IF burst.active /\ timeouts # {}
                      THEN [burst EXCEPT !.many = TRUE, !.text = query]
                      ELSE [active |-> TRUE, many |-> FALSE, text |-> query, reqs |-> <<>>]
          /\ UNCHANGED <<suggestions, results, resultsQuery>>
  /\ last' = NoEvent
  /\ UNCHANGED <<isOpen, loading, loadingSuggestions, loadingMore, currentPage, hasMore,
                 pagination, sugInFlight, fetchInFlight>>
  /\ UNCHANGED feedVars

\* time passes: every pending timer comes d units closer to its deadline
Advance(d) ==
  /\ timeouts # {}
  /\ \A t \in timeouts : t.remaining > 0
  /\ LET m == CHOOSE x \in {t.remaining : t \in timeouts} :
                 \A t \in timeouts : x <= t.remaining
         e == IF d < m THEN d ELSE m
     IN  timeouts' = {[t EXCEPT !.remaining = @ - e] : t \in timeouts}
  /\ UNCHANGED <<isOpen, searchQuery, suggestions, results, resultsQuery, loading,
                 loadingSuggestions,
                 loadingMore, currentPage, hasMore, pagination, sugInFlight,
                 fetchInFlight, burst>>
  /\ last' = NoEvent
  /\ UNCHANGED feedVars

\* a suggestion request.  Where the order of issue is observed, seq numbers the
\* requests in flight in that order and late tells that the response of a later
\* request for another query was applied already; elsewhere seq is 0
SuggestionRequest(query, ordered) ==
  [query |-> query, keywords |-> Tokenize(query),
   seq |-> IF ordered THEN 1 + BagCardinality(sugInFlight) ELSE 0, late |-> FALSE]

\* the requests still in flight once the response of r has been applied
Overtake(r) ==
  LET rest == sugInFlight (-) SetToBag({r})
      mark(x) == IF x.seq > r.seq THEN [x EXCEPT !.seq = @ - 1]
                 ELSE IF x.query # r.query THEN [x EXCEPT !.late = TRUE] ELSE x
  IN  IF r.seq = 0 THEN rest ELSE SetToBag({mark(x) : x \in BagToSet(rest)})

\* the debounce callback runs: fetchSuggestions(query) up to its await
DebounceFire(sugCap, ordered) ==
  \E t \in timeouts :
    /\ t.remaining = 0
    /\ BagCardinality(sugInFlight) < sugCap
    /\ timeouts' = timeouts \ {t}
    /\ IF Trim(t.query) = <<>>
       THEN /\ suggestions' = <<>>
            /\ UNCHANGED <<loadingSuggestions, sugInFlight, burst>>
       ELSE LET r == SuggestionRequest(t.query, ordered)
            IN  /\ loadingSuggestions' = TRUE
                /\ sugInFlight' = sugInFlight (+) SetToBag({r})
                /\ burst' = [burst EXCEPT !.reqs = Append(@, r.query)]
                /\ UNCHANGED suggestions
    /\ last' = NoEvent
    /\ UNCHANGED <<isOpen, searchQuery, results, resultsQuery, loading, loadingMore, currentPage,
                   hasMore, pagination, fetchInFlight>>
  /\ UNCHANGED feedVars

SuggestionsAfter_keep(r, resp) ==
  IF resp.ok /\ resp.data.present THEN resp.data.value ELSE suggestions
SuggestionsAfter_fresh(r, resp) ==
  IF r.query # searchQuery THEN suggestions
  ELSE IF resp.ok /\ resp.data.present THEN resp.data.value ELSE <<>>
\* setSuggestions(data.data || []) on success, setSuggestions([]) on failure
SuggestionsAfter(r, resp) ==
  IF resp.ok /\ resp.data.present THEN resp.data.value ELSE <<>>

\* fetchSuggestions after its await (lines 107-120)
fetchSuggestionsResponse(lists) ==
  \E r \in BagToSet(sugInFlight) : \E resp \in SuggestionResponses(lists) :
    /\ sugInFlight' = Overtake(r)
    /\ suggestions' = SuggestionsAfter(r, resp)
    /\ loadingSuggestions' = FALSE
    /\ last' = [NoEvent EXCEPT !.op = "sugResp", !.ok = resp.ok,
                              !.data = IF resp.data.present THEN resp.data.value ELSE <<>>,
                              !.sug = [query |-> r.query, late |-> r.late]]
    /\ UNCHANGED <<isOpen, searchQuery, results, resultsQuery, loading, loadingMore, currentPage,
                   hasMore, pagination, timeouts, fetchInFlight, burst>>
  /\ UNCHANGED feedVars

\* click on a suggestion chip (lines 335-338)
clickSuggestion(cap) ==
  \E i \in DOMAIN suggestions :
    /\ isOpen
    /\ ~loadingSuggestions
    /\ CanFetch(cap)
    /\ searchQuery' = suggestions[i]
    /\ fetchResults(suggestions[i], 1, FALSE)
    /\ last' = NoEvent
    /\ UNCHANGED <<isOpen, suggestions, loadingSuggestions, currentPage, timeouts,
                   sugInFlight, burst>>
  /\ UNCHANGED feedVars

handleKeyPress(key, cap) ==
  /\ isOpen
  /\ CanFetch(cap)
  /\ key = "Enter" /\ Trim(searchQuery) # <<>>
  /\ currentPage' = 1
  /\ fetchResults(searchQuery, 1, FALSE)
  /\ last' = NoEvent
  /\ UNCHANGED <<isOpen, searchQuery, suggestions, loadingSuggestions, timeouts,
                 sugInFlight, burst>>
  /\ UNCHANGED feedVars

\* the condition of lines 237-243
ShouldLoadMore(bottom) ==
  bottom /\ ~loading /\ ~loadingMore /\ hasMore /\ Len(results) > 0

\* a scroll event of the results container, distanceToBottom being
\* scrollHeight - scrollTop - clientHeight
handleScroll(distanceToBottom, cap) ==
  LET bottom == distanceToBottom <= ScrollThreshold IN
  /\ isOpen
  /\ IF ShouldLoadMore(bottom)
     THEN LET nextPage == currentPage + 1 IN
          /\ CanFetch(cap)
          /\ nextPage <= MaxPage
          /\ fetchResults(searchQuery, nextPage, TRUE)
     ELSE UNCHANGED <<results, resultsQuery, loading, loadingMore, hasMore, pagination,
                      fetchInFlight>>
  /\ last' = [NoEvent EXCEPT !.op = "scroll", !.near = bottom]
  /\ UNCHANGED <<isOpen, searchQuery, suggestions, loadingSuggestions, currentPage,
                 timeouts, sugInFlight, burst>>
  /\ UNCHANGED feedVars

ResultsAfterFailure_clear(append) == <<>>
\* if (!append) setResults([]) in both failure paths (lines 184-196)
ResultsAfterFailure(append) == IF ~append THEN <<>> ELSE results

AppliedResults_fresh(r, newResults) ==
  IF r.append
  THEN IF r.keywords = resultsQuery THEN MergeAppend(results, newResults) ELSE results
  ELSE newResults
\* the Result Set after a successful response (lines 168-181)
AppliedResults(r, newResults) ==
  IF r.append THEN MergeAppend(results, newResults) ELSE newResults

\* fetchResults after its await (lines 157-200)
fetchResultsResponse(pages, observed) ==
  \E r \in BagToSet(fetchInFlight) : \E resp \in SearchResponses(r.page, pages) :
    LET newResults == IF resp.data.present THEN resp.data.value ELSE <<>> IN
    /\ fetchInFlight' = fetchInFlight (-) SetToBag({r})
    /\ IF resp.ok
       THEN /\ hasMore' = HasMoreAfter(newResults)
            /\ results' = AppliedResults(r, newResults)
            /\ resultsQuery' = IF ~observed \/ AppliedResults(r, newResults) = <<>>
                             THEN <<>>
                             ELSE IF r.append /\ results # <<>> THEN resultsQuery
                             ELSE r.keywords
            /\ pagination' = IF resp.pagination.present THEN resp.pagination.value
                             ELSE NullPagination
            /\ currentPage' = r.page
       ELSE /\ results' = ResultsAfterFailure(r.append)
            /\ resultsQuery' = IF r.append THEN resultsQuery ELSE <<>>
            /\ IF ~r.append
               THEN /\ pagination' = NullPagination
                    /\ hasMore' = FALSE
               ELSE UNCHANGED <<pagination, hasMore>>
            /\ UNCHANGED currentPage
    /\ loading' = FALSE
    /\ loadingMore' = FALSE
    /\ last' = [NoEvent EXCEPT !.op = "fetchResp", !.req = r, !.ok = resp.ok,
                                !.data = newResults]
    /\ UNCHANGED <<isOpen, searchQuery, suggestions, loadingSuggestions, timeouts,
                   sugInFlight, burst>>
  /\ UNCHANGED feedVars

OverlayNext(texts, steps, lists, pages, cap, distances, sugCap) ==
  \/ Open
  \/ Close
  \/ \E query \in texts : handleSearch(query)
  \/ \E d \in steps : Advance(d)
  \/ DebounceFire(sugCap, FALSE)
  \/ fetchSuggestionsResponse(lists)
  \/ clickSuggestion(cap)
  \/ \E key \in Keys : handleKeyPress(key, cap)
  \/ \E d \in distances : handleScroll(d, cap)
  \/ fetchResultsResponse(pages, FALSE)

(***************************************************************************)
(* News feed: item creation and poll sessions (page.tsx)                   *)
(***************************************************************************)
\* a NewsItem; "" is an absent (falsy) field
Item(id, status, title) ==
  [id |-> id, status |-> status, title |-> title, thumbnail |-> "",
   published_at |-> "", author |-> "w", content |-> "c"]

\* the page the initial load returns
LoadedPage == <<Item(8, "synced", "x"), Item(9, "added", "y")>>
\* pagination.total of the responses
LoadedTotal == 3

\* the item POST /news answers with: a fresh identifier, pending
CreatedItem(n) == Item(n, "added", "u")

\* what POST /news may answer: the created item, a body without data, a
\* conflict or recognized error code, or a failure that leads to the error page
CreateOutcomes == {"created", "nodata", "rejected", "error"}

\* what GET /news/{id} may answer: a failure, or the item's current fields
\* (a title is present once the item is synced)
Answer(ok, status, title, thumbnail, published_at, author, content) ==
  [ok |-> ok, status |-> status, title |-> title, thumbnail |-> thumbnail,
   published_at |-> published_at, author |-> author, content |-> content]
NoAnswer == Answer(FALSE, "added", "", "", "", "", "")
StatusOutcomes ==
  {NoAnswer,
   Answer(TRUE, "added", "", "", "", "", ""),
   Answer(TRUE, "synced", "T", "", "", "", ""),
   Answer(TRUE, "failed", "", "", "", "", "")}

FeedSteps == {3}

Sessions == 1..(MaxSessions + 1)
NoPollEvent == [op |-> "none", s |-> 0, latest |-> FALSE, ok |-> FALSE, status |-> "",
                first |-> FALSE, item |-> 0, n |-> 0, scripted |-> FALSE,
                returned |-> NoAnswer]

InitFeed ==
  /\ mounted = TRUE
  /\ news = <<>>
  /\ initialLoading = TRUE
  /\ submitting = FALSE
  /\ pollingNewsId = 0
  /\ activePollingInterval = 0
  /\ intervals = {}
  /\ pollCount = [s \in Sessions |-> 0]
  /\ lookups = EmptyBag
  /\ post = EmptyBag
  /\ started = 0
  /\ age = [s \in Sessions |-> 0]
  /\ issued = [s \in Sessions |-> 0]
  /\ done = [s \in Sessions |-> FALSE]
  /\ scripted = [s \in Sessions |-> FALSE]
  /\ lastPoll = NoPollEvent
  /\ searching = FALSE
  /\ newsLoadingMore = FALSE
  /\ newsPage = 1
  /\ newsTotal = 0
  /\ deleting = FALSE
  /\ newsInFlight = EmptyBag
  /\ deleteInFlight = EmptyBag

Init == InitSearch /\ InitFeed

\* clearInterval(id); clearing null (0) or a dead timer does nothing
ClearInterval(ivs, id) == {t \in ivs : t.id # id}

\* the effect of lines 364-370: when activePollingInterval changes, the cleanup
\* of the previous render runs and clears the interval that render had seen
EffectCleanup(ivs, old, new) == IF old # new THEN ClearInterval(ivs, old) ELSE ivs

PatchNews_none(prevNews, newsId, updated) == prevNews
PatchNews_noFallback(prevNews, newsId, updated) ==
  [i \in DOMAIN prevNews |-> IF prevNews[i].id = newsId THEN updated ELSE prevNews[i]]
\* setNews(prevNews => prevNews.map(item => item.id === newsId ? {...} : item))
PatchNews(prevNews, newsId, updated) ==
  [i \in DOMAIN prevNews |->
     IF prevNews[i].id = newsId
     THEN [id |-> updated.id,
           title |-> IF updated.title # "" THEN updated.title ELSE prevNews[i].title,
           thumbnail |-> IF updated.thumbnail # "" THEN updated.thumbnail
                         ELSE prevNews[i].thumbnail,
           status |-> updated.status,
           published_at |-> IF updated.published_at # "" THEN updated.published_at
                            ELSE prevNews[i].published_at,
           author |-> IF updated.author # "" THEN updated.author ELSE prevNews[i].author,
           content |-> IF updated.content # "" THEN updated.content
                       ELSE prevNews[i].content]
     ELSE prevNews[i]]

\* A session's closure (pollCount and what is observed of it) lives as long as
\* its timer or one of its lookups does.  Once the timer is cleared pollCount is
\* no longer incremented and is only compared with maxPolls, so it is kept as
\* maxPolls or 0, and the observation of the session's ticks ends.
Ticking(s, ivs) == \E t \in ivs : t.id = s
Pending(s, lks) == \E l \in BagToSet(lks) : l.s = s
Keep(f, ivs, zero) == [s \in Sessions |-> IF Ticking(s, ivs) THEN f[s] ELSE zero]
Collect(dn, sc) ==
  /\ pollCount' = [s \in Sessions |->
                     IF Ticking(s, intervals') THEN pollCount[s]
                     ELSE IF Pending(s, lookups') /\ pollCount[s] >= maxPolls THEN maxPolls
                     ELSE 0]
  /\ age' = Keep(age, intervals', 0)
  /\ issued' = Keep(issued, intervals', 0)
  /\ scripted' = Keep(sc, intervals', FALSE)
  /\ done' = [s \in Sessions |->
                IF Ticking(s, intervals') \/ Pending(s, lookups') THEN dn[s] ELSE FALSE]

\* the component is gone: its state is discarded and the cleanup of the effect
\* of lines 364-370 clears the interval it holds
Unmounted ==
  /\ mounted' = FALSE
  /\ news' = <<>>
  /\ initialLoading' = TRUE
  /\ submitting' = FALSE
  /\ pollingNewsId' = 0
  /\ activePollingInterval' = 0
  /\ intervals' = ClearInterval(intervals, activePollingInterval)
  /\ searching' = FALSE
  /\ newsLoadingMore' = FALSE
  /\ newsPage' = 1
  /\ newsTotal' = 0
  /\ deleting' = FALSE
  /\ newsInFlight' = EmptyBag
  /\ deleteInFlight' = EmptyBag

\* the initial load of line 360 resolves; a failure leads to the error page
fetchNewsInitialResponse(ok) ==
  /\ mounted /\ initialLoading
  /\ IF ok
     THEN /\ news' = LoadedPage
          /\ initialLoading' = FALSE
          /\ newsTotal' = LoadedTotal
          /\ UNCHANGED <<mounted, submitting, pollingNewsId, activePollingInterval,
                         intervals, searching, newsLoadingMore, newsPage, deleting,
                         newsInFlight, deleteInFlight>>
     ELSE Unmounted
  /\ lastPoll' = NoPollEvent
  /\ UNCHANGED <<lookups, post, started>>
  /\ Collect(done, scripted)
  /\ UNCHANGED searchVars

\* the user leaves the screen
Unmount ==
  /\ mounted
  /\ Unmounted
  /\ lastPoll' = NoPollEvent
  /\ UNCHANGED <<lookups, post, started>>
  /\ Collect(done, scripted)
  /\ UNCHANGED searchVars

\* handleAddNews up to the await of the POST; the handler keeps the
\* activePollingInterval of the render it was created in
handleAddNews ==
  /\ mounted /\ ~initialLoading /\ ~submitting
  /\ started + BagCardinality(post) < MaxSessions
  /\ submitting' = TRUE
  /\ post' = post (+) SetToBag({[captured |-> activePollingInterval]})
  /\ lastPoll' = NoPollEvent
  /\ UNCHANGED <<mounted, news, initialLoading, pollingNewsId, activePollingInterval,
                 intervals, pollCount, lookups, started, age, issued, done, scripted>>
  /\ UNCHANGED listVars
  /\ UNCHANGED searchVars

startPollingNewsStatus_noStore(newsId, captured) ==
  /\ intervals' = ClearInterval(intervals, captured)
                    \cup {[id |-> started + 1, remaining |-> PollInterval]}
  /\ pollingNewsId' = IF mounted THEN newsId ELSE pollingNewsId
  /\ UNCHANGED activePollingInterval
  /\ started' = started + 1

startPollingNewsStatus(newsId, captured) ==
  LET pollInterval == started + 1
      live == ClearInterval(intervals, captured)
                \cup {[id |-> pollInterval, remaining |-> PollInterval]}
  IN
  /\ pollingNewsId' = IF mounted THEN newsId ELSE pollingNewsId
  /\ activePollingInterval' = IF mounted THEN pollInterval ELSE activePollingInterval
  /\ intervals' = IF mounted
                  THEN EffectCleanup(live, activePollingInterval, pollInterval)
                  ELSE live
  /\ started' = started + 1

Created_always(outcome) == TRUE
\* response.ok with a created item in the body (lines 234, 264-268)
Created(outcome) == outcome = "created"

\* what the POST has answered, as the observation of the step records it
CreationEvent(outcome) ==
  CASE outcome = "created" -> "created"
    [] outcome \in {"rejected", "error"} -> "createFailed"
    [] OTHER -> "none"

\* handleAddNews after the await of the POST (lines 234-283); a failure is
\* reported by a toast or by asking the router for the error page, and the
\* screen stays as it is until the navigation unmounts it
handleAddNewsResponse(outcome) ==
  \E p \in BagToSet(post) :
    /\ post' = post (-) SetToBag({p})
    /\ IF Created(outcome)
       THEN LET createdNewsItem == CreatedItem(started + 1) IN
            /\ news' = IF mounted THEN <<createdNewsItem>> \o news ELSE news
            /\ startPollingNewsStatus(createdNewsItem.id, p.captured)
            /\ lastPoll' = [NoPollEvent EXCEPT !.op = CreationEvent(outcome),
                                               !.s = started + 1,
                                               !.item = createdNewsItem.id]
       ELSE /\ lastPoll' = [NoPollEvent EXCEPT !.op = CreationEvent(outcome)]
            /\ UNCHANGED <<news, pollingNewsId, activePollingInterval, intervals,
                           started>>
    /\ submitting' = FALSE
    /\ UNCHANGED <<mounted, initialLoading>>
    /\ UNCHANGED listVars
    /\ UNCHANGED lookups
    /\ Collect(done, IF Created(outcome)
                     THEN [scripted EXCEPT ![started + 1] = TRUE] ELSE scripted)
    /\ UNCHANGED searchVars

\* time passes: every live interval comes d units closer to its next tick
Elapse(d) ==
  /\ intervals # {}
  /\ \A t \in intervals : t.remaining > 0
  /\ LET m == CHOOSE x \in {t.remaining : t \in intervals} :
                 \A t \in intervals : x <= t.remaining
         e == IF d < m THEN d ELSE m
     IN  /\ intervals' = {[t EXCEPT !.remaining = @ - e] : t \in intervals}
         /\ age' = [s \in Sessions |->
                      IF \E t \in intervals : t.id = s THEN age[s] + e ELSE age[s]]
  /\ lastPoll' = NoPollEvent
  /\ UNCHANGED <<mounted, news, initialLoading, submitting, pollingNewsId,
                 activePollingInterval, pollCount, lookups, post, started, issued,
                 done, scripted>>
  /\ UNCHANGED listVars
  /\ UNCHANGED searchVars

\* the lookups of session s are no longer those of its most recent tick
Older(lks, s) ==
  LET old(l) == IF l.s = s THEN [l EXCEPT !.latest = FALSE] ELSE l
      olds == {old(l) : l \in BagToSet(lks)}
  IN  [o \in olds |-> BagCardinality([l \in {x \in BagToSet(lks) : old(x) = o} |-> lks[l]])]

\* the interval callback up to its await: pollCount++, then the status lookup
\* of checkNewsStatus is sent (lines 203-206, 160)
PollTick ==
  \E t \in intervals :
    /\ t.remaining = 0
    /\ pollCount[t.id] < MaxPollCount
    /\ BagCardinality(lookups) < MaxLookups
    /\ intervals' = (intervals \ {t}) \cup {[t EXCEPT !.remaining = PollInterval]}
    /\ pollCount' = [pollCount EXCEPT ![t.id] = @ + 1]
    /\ lookups' = Older(lookups, t.id) (+) SetToBag({[s |-> t.id, latest |-> TRUE]})
    /\ issued' = [issued EXCEPT ![t.id] = @ + 1]
    /\ scripted' = [scripted EXCEPT ![t.id] = @ /\ ~\E l \in BagToSet(lookups) : l.s = t.id]
    /\ lastPoll' = NoPollEvent
    /\ UNCHANGED <<mounted, news, initialLoading, submitting, pollingNewsId,
                   activePollingInterval, post, started, age, done>>
    /\ UNCHANGED listVars
    /\ UNCHANGED searchVars

StopPolling_noBudget(status, count) == status # "added"
\* if (status !== 'added' || pollCount >= maxPolls)
StopPolling(status, count) == status # "added" \/ count >= maxPolls

\* checkNewsStatus after its await, and the rest of the interval callback
\* (lines 162-189, 208-213); newsId of session s is the item created for it
checkNewsStatusResponse(outcomes) ==
  \E l \in BagToSet(lookups) : \E out \in outcomes :
    LET newsId == l.s
        changed == out.ok /\ out.status # "added"
        status == IF changed THEN out.status ELSE "added"
        stop == StopPolling(status, pollCount[l.s])
        updatedNewsItem == [id |-> newsId, status |-> out.status, title |-> out.title,
                            thumbnail |-> out.thumbnail,
                            published_at |-> out.published_at, author |-> out.author,
                            content |-> out.content]
        done1 == [done EXCEPT ![l.s] = @ \/ changed]
        scripted1 == [scripted EXCEPT ![l.s] = @ /\ out.ok /\ ~changed]
    IN
    /\ lookups' = lookups (-) SetToBag({l})
    /\ news' = IF mounted /\ changed THEN PatchNews(news, newsId, updatedNewsItem) ELSE news
    /\ IF stop
       THEN /\ pollingNewsId' = 0
            /\ activePollingInterval' = 0
            /\ intervals' = IF mounted
                            THEN EffectCleanup(ClearInterval(intervals, l.s),
                                               activePollingInterval, 0)
                            ELSE ClearInterval(intervals, l.s)
       ELSE UNCHANGED <<pollingNewsId, activePollingInterval, intervals>>
    /\ Collect(done1, scripted1)
    /\ lastPoll' = [op |-> "status", s |-> l.s, latest |-> l.latest, ok |-> out.ok,
                    status |-> out.status, first |-> changed /\ ~done[l.s],
                    item |-> newsId, n |-> pollCount[l.s], scripted |-> scripted[l.s],
                    returned |-> out]
    /\ UNCHANGED <<mounted, initialLoading, submitting, post, started>>
    /\ UNCHANGED listVars
    /\ UNCHANGED searchVars

FeedNext ==
  \/ \E ok \in BOOLEAN : fetchNewsInitialResponse(ok)
  \/ Unmount
  \/ handleAddNews
  \/ \E outcome \in CreateOutcomes : handleAddNewsResponse(outcome)
  \/ \E d \in FeedSteps : Elapse(d)
  \/ PollTick
  \/ checkNewsStatusResponse(StatusOutcomes)

\* the news feed's item creation and poll sessions
SpecFeed == Init /\ [][FeedNext]_vars

\* the poll sessions of successfully created items, with time passing, due
\* ticks firing and every status lookup resolving or failing eventually
LiveSteps == {PollInterval}
LiveOutcomes == {NoAnswer, Answer(TRUE, "synced", "T", "", "", "", "")}
LiveNext ==
  \/ fetchNewsInitialResponse(TRUE)
  \/ handleAddNews
  \/ handleAddNewsResponse("created")
  \/ \E d \in LiveSteps : Elapse(d)
  \/ PollTick
  \/ checkNewsStatusResponse(LiveOutcomes)

SpecFeedLive ==
  /\ Init /\ [][LiveNext]_vars
  /\ WF_vars(\E d \in LiveSteps : Elapse(d))
  /\ WF_vars(PollTick)
  /\ WF_vars(checkNewsStatusResponse(LiveOutcomes))

(***************************************************************************)
(* News feed: the paginated list (page.tsx fetchNews, handleFilter,        *)
(* handleScroll, confirmDeleteNews)                                        *)
(***************************************************************************)
\* the pages GET /news may answer a request with: page 1 is the loaded page or
\* a filtered one; a later page holds the next item, preceded or not by the
\* item that an insertion at the backend has shifted onto it
NewsPages(r) ==
  IF r.page = 1
  THEN {LoadedPage, <<Item(9, "added", "y")>>}
  ELSE {<<Item(10, "synced", "z")>>, <<Item(9, "added", "y"), Item(10, "synced", "z")>>}

NewsResponses(r) ==
  {[ok |-> TRUE, data |-> d, total |-> Some(LoadedTotal)] : d \in NewsPages(r)}
  \cup {[ok |-> TRUE, data |-> <<>>, total |-> [present |-> FALSE, value |-> 0]],
        [ok |-> FALSE, data |-> <<>>, total |-> [present |-> FALSE, value |-> 0]]}

\* the items the user asks to delete
DeleteTargets == {1, 9}
DeleteOutcomes == {"deleted", "rejected", "error"}

\* the feed's poll sessions are left as they are
PollsUntouched ==
  /\ lastPoll' = NoPollEvent
  /\ UNCHANGED <<lookups, post, started>>
  /\ Collect(done, scripted)

\* fetchNews up to the await of the GET (lines 62-96), for a call that is not
\* the initial load
fetchNews(pageNo, append) ==
  /\ IF append
     THEN newsLoadingMore' = TRUE /\ UNCHANGED searching
     ELSE searching' = TRUE /\ UNCHANGED newsLoadingMore
  /\ newsInFlight' = newsInFlight (+) SetToBag({[page |-> pageNo, append |-> append]})

\* Apply Filters and Clear Filters: both reset the page to 1 and fetch page 1
handleFilter ==
  /\ mounted /\ ~initialLoading /\ ~searching
  /\ BagCardinality(newsInFlight) < MaxFetchInFlight + 1
  /\ newsPage' = 1
  /\ fetchNews(1, FALSE)
  /\ UNCHANGED <<mounted, news, initialLoading, submitting, pollingNewsId,
                 activePollingInterval, intervals, newsTotal, deleting, deleteInFlight>>
  /\ PollsUntouched
  /\ UNCHANGED searchVars

\* the window scroll listener, for a scroll position within 300px of the bottom
handleScrollNews ==
  /\ mounted
  /\ ~initialLoading /\ ~searching /\ ~newsLoadingMore /\ Len(news) < newsTotal
  /\ newsPage < MaxPage
  /\ BagCardinality(newsInFlight) < MaxFetchInFlight + 1
  /\ LET nextPage == newsPage + 1 IN
     /\ newsPage' = nextPage
     /\ fetchNews(nextPage, TRUE)
  /\ UNCHANGED <<mounted, news, initialLoading, submitting, pollingNewsId,
                 activePollingInterval, intervals, newsTotal, deleting, deleteInFlight>>
  /\ PollsUntouched
  /\ UNCHANGED searchVars

\* fetchNews after its await (lines 98-120); on a failure it asks the router for
\* the error page and returns, and the screen stays as it is until the
\* navigation unmounts it
fetchNewsResponse ==
  \E r \in BagToSet(newsInFlight) : \E resp \in NewsResponses(r) :
    /\ mounted
    /\ newsInFlight' = newsInFlight (-) SetToBag({r})
    /\ IF resp.ok
       THEN /\ news' = IF r.append THEN news \o resp.data ELSE resp.data
            /\ newsTotal' = IF resp.total.present THEN resp.total.value ELSE newsTotal
            /\ initialLoading' = FALSE
            /\ searching' = FALSE
            /\ newsLoadingMore' = FALSE
            /\ lastPoll' = NoPollEvent
       ELSE /\ UNCHANGED <<news, newsTotal, initialLoading, searching, newsLoadingMore>>
            /\ lastPoll' = [NoPollEvent EXCEPT
                              !.op = IF r.append THEN "moreFailed" ELSE "pageFailed"]
    /\ UNCHANGED <<mounted, submitting, pollingNewsId, activePollingInterval,
                   intervals, newsPage, deleting, deleteInFlight>>
    /\ UNCHANGED <<lookups, post, started>>
    /\ Collect(done, scripted)
    /\ UNCHANGED searchVars

\* the delete button of an entry followed by the confirmation (lines 287-303)
confirmDeleteNews(newsId) ==
  /\ mounted /\ ~initialLoading /\ ~searching /\ ~deleting
  /\ \E i \in DOMAIN news : news[i].id = newsId
  /\ deleting' = TRUE
  /\ deleteInFlight' = deleteInFlight (+) SetToBag({[newsId |-> newsId]})
  /\ UNCHANGED <<mounted, news, initialLoading, submitting, pollingNewsId,
                 activePollingInterval, intervals, searching, newsLoadingMore,
                 newsPage, newsTotal, newsInFlight>>
  /\ PollsUntouched
  /\ UNCHANGED searchVars

\* confirmDeleteNews after its await (lines 305-337)
confirmDeleteNewsResponse(outcome) ==
  \E r \in BagToSet(deleteInFlight) :
    /\ IF outcome = "error"
       THEN Unmounted
       ELSE /\ news' = IF outcome = "deleted"
                       THEN SelectSeq(news, LAMBDA item : item.id # r.newsId)
                       ELSE news
            /\ deleting' = FALSE
            /\ deleteInFlight' = deleteInFlight (-) SetToBag({r})
            /\ UNCHANGED <<mounted, initialLoading, submitting, pollingNewsId,
                           activePollingInterval, intervals, searching, newsLoadingMore,
                           newsPage, newsTotal, newsInFlight>>
    /\ PollsUntouched
    /\ UNCHANGED searchVars

\* what the status lookups answer in the list's specification
ListStatusOutcomes ==
  {Answer(TRUE, "synced", "T", "t.png", "2025", "A", "C"),
   Answer(TRUE, "failed", "", "", "", "", "E")}

ListOps ==
  \/ \E ok \in BOOLEAN : fetchNewsInitialResponse(ok)
  \/ handleFilter
  \/ fetchNewsResponse
  \/ \E newsId \in DeleteTargets : confirmDeleteNews(newsId)
  \/ \E outcome \in DeleteOutcomes : confirmDeleteNewsResponse(outcome)
  \/ handleAddNews
  \/ handleAddNewsResponse("created")

ListNext ==
  \/ ListOps
  \/ handleScrollNews
  \/ Unmount

PatchNext ==
  \/ ListOps
  \/ \E d \in FeedSteps : Elapse(d)
  \/ PollTick
  \/ checkNewsStatusResponse(ListStatusOutcomes)

\* the news feed's paginated list: loads, filters, continuations, creations
\* and deletions
SpecList == Init /\ [][ListNext]_vars

\* the news feed's poll sessions while the list is filtered and items are deleted
SpecPatch == Init /\ [][PatchNext]_vars

\* the overlay with the full set of result pages
SpecSearch == Init /\ [][OverlayNext(SearchTexts, CoarseSteps, SuggestionLists, Pages,
                                   MaxFetchInFlight, AtBottom, MaxSugInFlight)]_vars

\* the overlay with the full set of input texts and finer time steps
SpecDebounce == Init /\ [][OverlayNext(Texts, AdvanceSteps, SuggestionLists, SmallPages,
                                     MaxFetchInFlight, AtBottom, MaxSugInFlight)]_vars

\* the overlay with one more search request in flight, so that responses
\* overtake one another
RacePages == {<<1, 2>>, <<2, 0, 40>>}
RaceTexts == {ElectionFraud}
RaceLists == {<<ElectionFraud>>}
SpecRace == Init /\ [][OverlayNext(RaceTexts, CoarseSteps, RaceLists, RacePages,
                                 MaxFetchInFlight + 1,
                                 ScrollDistances, MaxSugInFlight)]_vars

\* the overlay's searches alone, for two queries and with one more search
\* request in flight: the user edits the input, presses Enter and scrolls while
\* responses arrive in any order
QueryTexts == {TextA, ElectionFraud}
QueryNext ==
  \/ Open
  \/ Close
  \/ \E query \in QueryTexts : handleSearch(query)
  \/ \E key \in Keys : handleKeyPress(key, MaxFetchInFlight + 1)
  \/ \E d \in AtBottom : handleScroll(d, MaxFetchInFlight + 1)
  \/ fetchResultsResponse(RacePages, TRUE)
SpecQueries == Init /\ [][QueryNext]_vars

\* the overlay's input box and suggestion list alone, with one more suggestion
\* request in flight and two queries, each answered with its own list or with
\* that of the other
SuggestTexts == {Blank, TextA, ElectionFraud}
SuggestLists == {<<TextA>>, <<ElectionFraud>>}
SuggestNext ==
  \/ Open
  \/ Close
  \/ \E query \in SuggestTexts : handleSearch(query)
  \/ \E d \in CoarseSteps : Advance(d)
  \/ DebounceFire(MaxSugInFlight + 1, TRUE)
  \/ fetchSuggestionsResponse(SuggestLists)
SpecSuggest == Init /\ [][SuggestNext]_vars

(***************************************************************************)
(* Properties of the news feed's poll sessions                             *)
(***************************************************************************)
StatusApplied == lastPoll.op = "status"
StatusOf(list, id) == {list[i].status : i \in {j \in DOMAIN list : list[j].id = id}}

\* C2: at most one poll timer is live in every reachable state.
C2_OneTimer == Cardinality(intervals) <= 1

C2_Witness ==
  /\ mounted /\ started = 2 /\ Ticking(2, intervals)
  /\ StatusApplied /\ lastPoll.s = 1

\* C3: a poll session issues at most 12 status lookups, the last of them no
\* later than 60 time units after the session started.
C3_AtMost12Lookups ==
  \A t \in intervals :
    /\ issued[t.id] <= maxPolls
    /\ issued[t.id] > 0 => age[t.id] - (PollInterval - t.remaining) <= maxPolls * PollInterval

\* C4: when a lookup of a session first returns a status other than "added", the
\* timer is canceled and no later tick of the session has issued a lookup.
C4_StopsAtFirstChange ==
  (StatusApplied /\ lastPoll.first) =>
     (lastPoll.latest /\ ~Ticking(lastPoll.s, intervals))

\* C5: when the lookups of ticks 1 to 11 were each answered "added" before the
\* next tick and the lookup of tick 12 is answered "synced", the session is
\* terminated (timer cleared, no active interval, no polled id) and the item's
\* entry has status "synced".
ScriptedSynced ==
  /\ mounted /\ StatusApplied /\ lastPoll.scripted /\ lastPoll.latest
  /\ lastPoll.n = 12 /\ lastPoll.ok /\ lastPoll.status = "synced"
C5_ScriptedBackend ==
  ScriptedSynced =>
    /\ ~Ticking(lastPoll.s, intervals)
    /\ activePollingInterval = 0 /\ pollingNewsId = 0
    /\ StatusOf(news, lastPoll.item) = {"synced"}

C5_Witness == ScriptedSynced /\ started = 1 /\ news[1] = Item(1, "synced", "T")

\* C10: a successful creation puts the created item, with status "added", in
\* front of the unchanged previous entries, and the session's first tick fires 5
\* time units after it: until then its timer stays live (unless the screen is
\* left or a newer item is created).
C10_CreationStartsPolling ==
  [][/\ (lastPoll'.op = "created" /\ mounted') =>
          /\ news' = <<Item(lastPoll'.item, "added", "u")>> \o news
          /\ Ticking(lastPoll'.s, intervals')
     /\ \A t \in intervals :
          pollCount[t.id] = 0 =>
            /\ age[t.id] + t.remaining = PollInterval
            /\ Ticking(t.id, intervals') \/ ~mounted' \/ started' > started]_vars

(***************************************************************************)
(* Properties of the search overlay                                        *)
(***************************************************************************)
Ids(seq) == {seq[i] : i \in DOMAIN seq}
Unique(seq) == \A i, j \in DOMAIN seq : seq[i] = seq[j] => i = j

\* the search requests this step has put in flight
Issued ==
  {r \in BagToSet(fetchInFlight') : CopiesIn(r, fetchInFlight') > CopiesIn(r, fetchInFlight)}
Applied == last.op = "fetchResp"
AppliedOk == Applied /\ last.ok
AppliedEmptyPage == AppliedOk /\ last.data = <<>>
FailedFresh == Applied /\ ~last.ok /\ ~last.req.append
FailedAppend == Applied /\ ~last.ok /\ last.req.append

\* C1: a burst of input changes with non-blank text, each made while the debounce
\* timer of the previous one is still pending, issues no suggestion request while
\* the timer is pending and exactly one once it has fired, for the text of the
\* last change.
C1_OneRequestPerBurst ==
  burst.active =>
    IF timeouts # {} THEN burst.reqs = <<>> ELSE burst.reqs = <<burst.text>>

C1_Witness ==
  /\ isOpen /\ burst.active /\ burst.many /\ timeouts = {}
  /\ burst.text = ElectionFraud /\ burst.reqs = <<ElectionFraud>>

\* C6 (as claimed): hasMore turns false only when a successfully fetched page is empty.
C6_Original == [][(hasMore /\ ~hasMore') => AppliedEmptyPage']_vars

\* C6 (amended): hasMore turns false only when a successfully fetched page is
\* empty or a non-append fetch fails; both always leave it false, and a failed
\* append fetch leaves it as it was.
C6_HasMoreFalse ==
  [][/\ (hasMore /\ ~hasMore') => (AppliedEmptyPage' \/ FailedFresh')
     /\ (AppliedEmptyPage' \/ FailedFresh') => ~hasMore'
     /\ (AppliedOk' /\ last'.data # <<>>) => hasMore'
     /\ FailedAppend' => hasMore' = hasMore]_vars

C6_Witness == FailedFresh /\ ~hasMore /\ isOpen

\* C7: a fresh (non-append) fetch empties the Result Set and the Pagination
\* Metadata and sets hasMore when it starts; when its successful response is
\* applied, the Result Set is exactly the response's items in response order.
C7_FreshFetch ==
  [][/\ (\E r \in Issued : ~r.append) =>
          (results' = <<>> /\ pagination' = NullPagination /\ hasMore' /\ loading')
     /\ (AppliedOk' /\ ~last'.req.append) => results' = last'.data]_vars

C7_Witness ==
  /\ \E r \in BagToSet(fetchInFlight) : ~r.append
  /\ currentPage = 2 /\ loading
  /\ results = <<>> /\ pagination = NullPagination /\ hasMore

\* C8: applying a successful append response whose identifiers are all in the
\* Result Set already leaves the Result Set unchanged.
C8_AppendSubset ==
  [][(AppliedOk' /\ last'.req.append /\ Ids(last'.data) \subseteq Ids(results))
       => results' = results]_vars

C8_Witness ==
  AppliedOk /\ last.req.append /\ last.data = <<1, 2>> /\ results = FullPage

ElectionFraudTokens == <<<<"e","l","e","c","t","i","o","n">>, <<"f","r","a","u","d">>>>
ElectionFraudPage(n, append) ==
  [keywords |-> ElectionFraudTokens, page |-> n, size |-> 30, append |-> append]

\* the steps of the "election fraud" scenario: the committed search, the scroll
\* that follows the 30 items of page 1, and the 5 new items of page 2
ScenarioSearch == searchQuery' = ElectionFraud /\ \E r \in Issued : ~r.append
ScenarioScroll ==
  /\ searchQuery = ElectionFraud /\ results = FullPage /\ currentPage = 1
  /\ \E r \in Issued : r.append
ScenarioPage2 ==
  /\ results = FullPage
  /\ AppliedOk' /\ last'.req = ElectionFraudPage(2, TRUE) /\ last'.data = ShortPage

\* C9 (as claimed): the scenario ends with 35 unique items and hasMore false.
C9_Original ==
  [][ScenarioPage2 => (Len(results') = 35 /\ Unique(results') /\ ~hasMore')]_vars

\* C9 (amended): the search for "election fraud" sends the tokens election, fraud
\* with page 1 and size 30, the scroll after 30 items requests page 2 of the same
\* tokens, and after the 5 new items of page 2 the Result Set holds 35 unique
\* items and hasMore is true.
C9_Scenario ==
  [][/\ ScenarioSearch => Issued = {ElectionFraudPage(1, FALSE)}
     /\ ScenarioScroll => Issued = {ElectionFraudPage(2, TRUE)}
     /\ ScenarioPage2 => (Len(results') = 35 /\ Unique(results') /\ hasMore')]_vars

C9_Witness ==
  /\ AppliedOk /\ last.req = ElectionFraudPage(2, TRUE) /\ last.data = ShortPage
  /\ Len(results) = 35 /\ Unique(results) /\ hasMore

\* C11: with backend pages of pairwise-distinct identifiers, no identifier
\* appears twice in the overlay's Result Set, whatever the order in which the
\* responses of fresh searches and appends arrive.
C11_NoDuplicates == Unique(results)

C11_Witness ==
  /\ AppliedOk /\ last.req.append /\ last.data = <<2, 0, 40>>
  /\ results = <<1, 2, 40>> /\ fetchInFlight # EmptyBag

(***************************************************************************)
(* Properties of the news feed's paginated list                            *)
(***************************************************************************)
NewsIds(list) == [i \in DOMAIN list |-> list[i].id]

\* C12: no identifier appears twice in the news feed's Result Set.
C12_NoDuplicateNews == Unique(NewsIds(news))

SuggestionApplied == last.op = "sugResp"

\* C13: a failed suggestion request empties the suggestion list and clears the
\* suggestions busy indicator; the Result Set, hasMore, the page state and
\* every other part of the overlay are left as they were.
C13_SuggestionFailure ==
  [][(SuggestionApplied' /\ ~last'.ok) =>
       /\ suggestions' = <<>>
       /\ ~loadingSuggestions'
       /\ UNCHANGED <<isOpen, searchQuery, results, resultsQuery, loading, loadingMore, currentPage,
                      hasMore, pagination, timeouts, fetchInFlight>>]_vars

C13_Witness ==
  /\ SuggestionApplied /\ ~last.ok /\ isOpen
  /\ suggestions = <<>> /\ ~loadingSuggestions
  /\ results # <<>> /\ loadingMore /\ fetchInFlight # EmptyBag

\* C14: a failed non-append fetch clears the Result Set and the Pagination
\* Metadata and sets hasMore to false; a failed append fetch leaves the Result
\* Set, the Pagination Metadata, hasMore and the current page as they were;
\* both clear the busy indicators.
C14_FetchFailure ==
  [][/\ FailedFresh' =>
          (results' = <<>> /\ pagination' = NullPagination /\ ~hasMore')
     /\ FailedAppend' => UNCHANGED <<results, resultsQuery, pagination, hasMore, currentPage>>
     /\ (FailedFresh' \/ FailedAppend') => (~loading' /\ ~loadingMore')]_vars

C14_Witness ==
  /\ FailedAppend /\ isOpen /\ results = <<1, 2>> /\ hasMore /\ currentPage = 1
  /\ pagination # NullPagination /\ ~loadingMore

ScrollEvent == last.op = "scroll"

\* C15: a scroll event issues the continuation request (page = currentPage + 1,
\* append) exactly when, at the event, the distance to the bottom is at most
\* 100, neither busy indicator is set, hasMore is true and the Result Set is
\* non-empty; otherwise it issues no request and changes no state.  No other
\* step issues a continuation request.
C15_ScrollTrigger ==
  [][/\ ScrollEvent' =>
          IF /\ last'.near /\ ~loading /\ ~loadingMore /\ hasMore /\ results # <<>>
          THEN /\ Issued = {SearchRequest(searchQuery, currentPage + 1, TRUE)}
               /\ BagCardinality(fetchInFlight') = BagCardinality(fetchInFlight) + 1
          ELSE UNCHANGED <<isOpen, searchQuery, suggestions, results, resultsQuery, loading,
                           loadingSuggestions, loadingMore, currentPage, hasMore,
                           pagination, timeouts, sugInFlight, fetchInFlight>>
     /\ (\E r \in Issued : r.append) => (ScrollEvent' /\ last'.near)]_vars

\* C16: while the overlay is closed no debounce timer is pending and no
\* suggestion request is issued: closing cancels the pending timer.
C16_NoLookupWhileClosed ==
  [][/\ ~isOpen' => timeouts' = {}
     /\ BagCardinality(sugInFlight') > BagCardinality(sugInFlight) => (isOpen /\ isOpen')]_vars

\* the overlay was closed while the timer of a typed text was pending
C16_Witness ==
  /\ ~isOpen /\ last.op = "close" /\ last.near
  /\ timeouts = {} /\ sugInFlight = EmptyBag

\* the lookup applied by this step failed or returned "added"
Inconclusive == StatusApplied /\ (~lastPoll.ok \/ lastPoll.status = "added")

\* C17: a status lookup that fails or returns "added" never modifies the Result
\* Set; while fewer than 12 lookups have been issued it leaves the session's
\* timer running, and once 12 have been issued it cancels the timer; a session
\* none of whose lookups returned another status ends with the item still "added".
C17_FailuresCount ==
  [][Inconclusive' =>
       LET s == lastPoll'.s IN
       /\ news' = news
       /\ Ticking(s, intervals) => issued[s] = lastPoll'.n
       /\ lastPoll'.n < maxPolls => (Ticking(s, intervals) <=> Ticking(s, intervals'))
       /\ lastPoll'.n >= maxPolls => ~Ticking(s, intervals')
       /\ (lastPoll'.n >= maxPolls /\ ~done[s] /\ mounted') =>
            StatusOf(news', lastPoll'.item) = {"added"}]_vars

C17_Witness ==
  /\ Inconclusive /\ ~lastPoll.ok /\ lastPoll.latest /\ lastPoll.n = maxPolls
  /\ mounted /\ ~Ticking(lastPoll.s, intervals) /\ activePollingInterval = 0
  /\ StatusOf(news, lastPoll.item) = {"added"}

\* the lookup applied by this step returned a status other than "added" to the
\* mounted screen
Patched == mounted /\ StatusApplied /\ lastPoll.ok /\ lastPoll.status # "added"
Preferred(new, old) == IF new # "" THEN new ELSE old

\* C18: a poll patch keeps the length and the order of the Result Set and
\* changes only the entries whose identifier is the polled one: there the status
\* is the returned one and title, thumbnail, published date, author and content
\* are the returned values when present and the previous ones otherwise.  With
\* no such entry the Result Set is unchanged.
C18_PatchFrame ==
  [][Patched' =>
       LET r == lastPoll'.returned IN
       /\ DOMAIN news' = DOMAIN news
       /\ \A i \in DOMAIN news :
            IF news[i].id = lastPoll'.item
            THEN /\ news'[i].id = news[i].id
                 /\ news'[i].status = r.status
                 /\ news'[i].title = Preferred(r.title, news[i].title)
                 /\ news'[i].thumbnail = Preferred(r.thumbnail, news[i].thumbnail)
                 /\ news'[i].published_at = Preferred(r.published_at, news[i].published_at)
                 /\ news'[i].author = Preferred(r.author, news[i].author)
                 /\ news'[i].content = Preferred(r.content, news[i].content)
            ELSE news'[i] = news[i]]_vars

\* the created item, second in the list, is patched by a response without title
C18_Witness ==
  /\ Patched /\ lastPoll.status = "failed" /\ Len(news) >= 3
  /\ news[2].id = lastPoll.item /\ news[2].status = "failed"
  /\ news[2].title = "u" /\ news[2].content = "E" /\ news[2].author = "w"
  /\ news[1].status = "added"

\* C19: every started poll session eventually terminates: its timer is canceled
\* and none of its status lookups is pending any more.
C19_SessionTerminates ==
  \A s \in Sessions :
    Ticking(s, intervals) ~> (~Ticking(s, intervals) /\ ~Pending(s, lookups))

\* the only session started has ended by its budget: its 12th lookup failed like
\* the eleven before it, the timer is canceled and no lookup is pending
C19_Witness ==
  /\ StatusApplied /\ ~lastPoll.ok /\ lastPoll.n = maxPolls
  /\ started = 1 /\ mounted /\ intervals = {} /\ lookups = EmptyBag


\* C20: a scroll event of the overlay issues a continuation fetch only when no
\* other page fetch of the overlay, primary or continuation, is in flight.
C20_NoOverlappingFetch ==
  [][(last'.op = "scroll" /\ \E r \in Issued : r.append) => fetchInFlight = EmptyBag]_vars


\* C21: the current-page value of the news feed changes only in a step that
\* applies a successful fetch response, so that a continuation asks for the
\* page after the last one that was completed.
C21_PageFollowsResponses ==
  [][(mounted' /\ newsPage' # newsPage) =>
       BagCardinality(newsInFlight') < BagCardinality(newsInFlight)]_vars


\* C22: the suggestion list holds the data of the suggestion response applied
\* last (empty after a failure), whatever query that response was requested
\* for: a response that a later request's response has overtaken is applied too.
C22_LastResponseWins ==
  SuggestionApplied => suggestions = IF last.ok THEN last.data ELSE <<>>

\* the response of the older of two requests in flight together arrives after
\* that of the newer one and, with the input showing another query, replaces the list
C22_Witness ==
  /\ SuggestionApplied /\ last.ok /\ last.sug.late /\ last.sug.query # searchQuery
  /\ isOpen /\ sugInFlight = EmptyBag
  /\ suggestions = last.data /\ suggestions # <<>>


\* the successful response applied by this step answers a continuation fetch
\* issued for another query than the one that produced the Result Set
StaleAppend ==
  /\ AppliedOk /\ last.req.append
  /\ resultsQuery # <<>> /\ last.req.keywords # resultsQuery

\* C23: the response of a continuation fetch of an earlier query, arriving after
\* a fresh query has produced the Result Set, is not discarded: its items whose
\* ids are not present yet are appended to the new query's Result Set.
C23_StaleAppendApplied ==
  [][StaleAppend' =>
       results' = results \o SelectSeq(last'.data,
                                       LAMBDA id : id # 0 /\ id \notin Ids(results))]_vars

C23_Witness ==
  /\ StaleAppend /\ isOpen /\ last.data = <<2, 0, 40>>
  /\ results = <<1, 2, 40>> /\ currentPage = 2


\* C24: when a page fetch of the news feed fails, the busy indicator that the
\* fetch set (searching, or loading-more for an append fetch) is cleared, and a
\* failed append fetch leaves the loaded Result Set as it was.
C24_FailureClearsBusy ==
  [][/\ lastPoll'.op = "pageFailed" => ~searching'
     /\ lastPoll'.op = "moreFailed" => (~newsLoadingMore' /\ news' = news)]_vars


CreateFailed == lastPoll.op = "createFailed"

C26_NoTimerAfterUnmount == ~mounted => intervals = {}


\* C27: while the overlay is open the primary-load indicator is set whenever a
\* non-append fetch is in flight, and the loading-more indicator is set
\* whenever an append fetch is in flight.
C27_BusyReflectsFlight ==
  isOpen =>
    /\ (\E r \in BagToSet(fetchInFlight) : ~r.append) => loading
    /\ (\E r \in BagToSet(fetchInFlight) : r.append) => loadingMore


\* C28: every continuation fetch that a scroll event issues is for the query of
\* the fetch that produced the current Result Set.
C28_ContinuationSameQuery ==
  [][last'.op = "scroll" =>
       \A r \in Issued : r.append => r.keywords = resultsQuery]_vars


\* C29: the pages applied to the Result Set for the query that produced it are
\* 1, 2, 3, ... in order: a successful continuation response of that query
\* carries the page after the last page applied, none skipped and none twice.
C29_PagesInOrder ==
  [][(AppliedOk' /\ last'.req.append /\ last'.req.keywords = resultsQuery) =>
       last'.req.page = currentPage + 1]_vars


\* C30: while the overlay is closed its state is at the reset values: empty
\* Result Set, empty suggestions, no Pagination Metadata, hasMore true, current
\* page 1 and every busy indicator clear.
C30_ClosedIsReset ==
  ~isOpen =>
    /\ results = <<>> /\ suggestions = <<>>
    /\ pagination = NullPagination /\ hasMore /\ currentPage = 1
    /\ ~loading /\ ~loadingSuggestions /\ ~loadingMore
====
